---- MODULE Spec2Model ----
(***************************************************************************)
(* myFlix REST API (src/index.js): the route handlers over the User and    *)
(* Movie collections.  Every request is received (middleware, validation,  *)
(* synchronous hashing), then its database calls run one at a time, each   *)
(* atomic, interleaved with the calls of the other requests in flight.     *)
(*                                                                         *)
(* Text values (usernames, passwords, e-mail addresses) are sequences of   *)
(* one-character strings.  Absent is JavaScript's undefined, Null is null. *)
(***************************************************************************)
EXTENDS Integers, Sequences, FiniteSets, TLC

VARIABLES users, nextId, reqs, writer, stripUndefined

vars == <<users, nextId, reqs, writer, stripUndefined>>

\* ------------------------------------------------------------------ bounds

\* Requests received in one behaviour of the account routes and of all routes.
MaxReqs == 2

\* Requests received in one behaviour of the favourites routes.
MaxFavReqs == 3

\* ------------------------------------------------------------------ values

Absent == <<"undefined">>
Null == <<"null">>

IsText(v) == v /= Absent /\ v /= Null

\* What a validator sees of a field: a missing field is the empty string.
ToStr(v) == IF IsText(v) THEN v ELSE <<>>

Alice == <<"a", "l", "i", "c", "e">>
Bobby == <<"b", "o", "b", "b", "y">>
Carol == <<"c", "a", "r", "o", "l">>
ShortName == <<"a", "b", "c">>
SymbolName == <<"a", "l", "_", "c", "e">>

Pw1 == <<"p", "w", "1">>
Pw2 == <<"p", "w", "2">>
EmptyText == <<>>

GoodEmail == <<"a", "@", "b", ".", "c">>
OtherEmail == <<"e", "@", "b", ".", "c">>
BadEmail == <<"a", "b", ".", "c">>

Day1 == <<"1990-01-01">>
Day2 == <<"2000-02-02">>

Salts == {"s1", "s2"}

Movie1 == <<"m1">>
Movie2 == <<"m2">>
MovieIDs == {Movie1, Movie2}

Drama == <<"D", "r", "a", "m", "a">>
Comedy == <<"C", "o", "m", "e", "d", "y">>
Nolan == <<"N", "o", "l", "a", "n">>
Allen == <<"A", "l", "l", "e", "n">>
Title1 == <<"T", "1">>
Title2 == <<"T", "2">>

\* The Movie collection: seeded out of band, read-only through the API.
Movies ==
  << [_id |-> Movie1, Title |-> Title1,
      Genre |-> [Name |-> Drama, Description |-> <<"g1">>],
      Director |-> [Name |-> Nolan, Bio |-> <<"b1">>]],
     [_id |-> Movie2, Title |-> Title2,
      Genre |-> [Name |-> Drama, Description |-> <<"g2">>],
      Director |-> [Name |-> Nolan, Bio |-> <<"b2">>]] >>

\* ------------------------------------------------------------- validators

AlnumChars ==
  {"a", "b", "c", "d", "e", "f", "g", "h", "i", "j", "k", "l", "m",
   "n", "o", "p", "q", "r", "s", "t", "u", "v", "w", "x", "y", "z",
   "A", "B", "C", "D", "E", "F", "G", "H", "I", "J", "K", "L", "M",
   "N", "O", "P", "Q", "R", "S", "T", "U", "V", "W", "X", "Y", "Z",
   "0", "1", "2", "3", "4", "5", "6", "7", "8", "9"}

MinUsernameLength == 5

IsLengthMin(s, min) == Len(s) >= min

IsAlphanumeric(s) == Len(s) > 0 /\ \A k \in 1..Len(s) : s[k] \in AlnumChars

IsEmpty(s) == Len(s) = 0

\* local@domain.tld: one "@" with text before it, a "." inside what follows.
IsEmail(s) ==
  \E k \in 1..Len(s) :
    /\ s[k] = "@"
    /\ k > 1
    /\ \A j \in 1..Len(s) : s[j] = "@" => j = k
    /\ \E d \in (k + 2)..(Len(s) - 1) : s[d] = "."

ValidationErrors(body) ==
  {m \in {"Username is required",
          "Username contains non alphanumeric characters - not allowed.",
          "Password is required",
          "Email does not appear to be valid"} :
     \/ m = "Username is required"
          /\ ~IsLengthMin(ToStr(body.Username), MinUsernameLength)
     \/ m = "Username contains non alphanumeric characters - not allowed."
          /\ ~IsAlphanumeric(ToStr(body.Username))
     \/ m = "Password is required" /\ IsEmpty(ToStr(body.Password))
     \/ m = "Email does not appear to be valid" /\ ~IsEmail(ToStr(body.Email))}

\* ------------------------------------------------------- credential codec

Throws == <<"throws">>

\* A salted one-way digest: the digest of plaintext p under salt s is the
\* opaque term <<"$2b$", s, p>>, which no plaintext equals.
Hash(p, salt) == <<"$2b$", salt, p>>

IsHash(h) == Len(h) = 3 /\ h[1] = "$2b$"

\* Users.hashPassword: defined on text; anything else makes it throw.
HashPassword(p, salt) == IF IsText(p) THEN Hash(p, salt) ELSE Throws

Verify(p, h) == IsText(p) /\ IsHash(h) /\ h = Hash(p, h[2])

\* --------------------------------------------------------- token verifier

Secret == "secret"

NoToken == [kind |-> "none", sub |-> Null, key |-> "", expired |-> FALSE]
Malformed == [kind |-> "malformed", sub |-> Null, key |-> "", expired |-> FALSE]

Issue(username) ==
  [kind |-> "jwt", sub |-> username, key |-> Secret, expired |-> FALSE]

BadSignature(username) == [Issue(username) EXCEPT !.key = "forged"]
Expired(username) == [Issue(username) EXCEPT !.expired = TRUE]

\* verify(token): the subject, or Null for a rejected token.
VerifyToken(token) ==
  IF token.kind = "jwt" /\ token.key = Secret /\ ~token.expired
  THEN token.sub
  ELSE Null

\* ------------------------------------------------------------------ routes

Mutant_IsProtected(route) ==
  route \in {"GET /users", "GET /users/:Username", "GET /movies",
             "GET /movies/:Title", "GET /movies/genres/:Name",
             "GET /movies/directors/:Name", "PUT /users/:Username",
             "POST /users/:Username/movies/:MovieID",
             "DELETE /users/:Username/movies/:MovieID"}

\* The routes registered with passport.authenticate('jwt', ...).
IsProtected(route) ==
  route \in {"GET /users", "GET /users/:Username", "GET /movies",
             "GET /movies/:Title", "GET /movies/genres/:Name",
             "GET /movies/directors/:Name", "PUT /users/:Username",
             "POST /users/:Username/movies/:MovieID",
             "DELETE /users/:Username/movies/:MovieID",
             "DELETE /users/:Username"}

Authorized(route, token) == ~IsProtected(route) \/ VerifyToken(token) /= Null

\* ------------------------------------------------------ data access layer

\* The position of the first document whose Username is uname, or 0.
FindIndex(coll, uname) ==
  IF \E k \in 1..Len(coll) : coll[k].Username = uname
  THEN CHOOSE k \in 1..Len(coll) :
         /\ coll[k].Username = uname
         /\ \A j \in 1..(k - 1) : coll[j].Username /= uname
  ELSE 0

\* findOne: the first matching document, as a sequence of none or one.
FindOne(coll, uname) ==
  IF FindIndex(coll, uname) = 0 THEN <<>> ELSE <<coll[FindIndex(coll, uname)]>>

RemoveAt(coll, k) == SubSeq(coll, 1, k - 1) \o SubSeq(coll, k + 1, Len(coll))

\* $set of one field: a key whose value is undefined is stored as null, or
\* dropped from the update, depending on the driver's handling of undefined.
SetField(old, new) ==
  IF new = Absent THEN (IF stripUndefined THEN old ELSE Null) ELSE new

Mutant_Push(favs, movieId) ==
  IF \E k \in 1..Len(favs) : favs[k] = movieId THEN favs ELSE Append(favs, movieId)

\* $push: { FavoriteMovies: MovieID }
Push(favs, movieId) == Append(favs, movieId)

RECURSIVE Mutant_Pull(_, _)
Mutant_Pull(favs, movieId) ==
  IF favs = <<>> THEN <<>>
  ELSE IF Head(favs) = movieId THEN Tail(favs)
  ELSE <<Head(favs)>> \o Mutant_Pull(Tail(favs), movieId)

\* $pull: { FavoriteMovies: MovieID }: every occurrence goes.
Pull(favs, movieId) == SelectSeq(favs, LAMBDA m : m /= movieId)

\* ---------------------------------------------------------------- requests

NoParams == [Username |-> Absent, MovieID |-> Absent, Title |-> Absent, Name |-> Absent]
NoFields == [Username |-> Absent, Password |-> Absent, Email |-> Absent, Birthday |-> Absent]

UserParam(uname) == [NoParams EXCEPT !.Username = uname]
FavParams(uname, movieId) == [NoParams EXCEPT !.Username = uname, !.MovieID = movieId]

Fields(uname, password, email, birthday) ==
  [Username |-> uname, Password |-> password, Email |-> email, Birthday |-> birthday]

\* The indices of the requests already answered.
Done == {k \in 1..Len(reqs) : reqs[k].pc = "done"}

\* A request as received: pre and seen record the collection and the answered
\* requests at that moment, post the collection when the answer is sent.
NewReq(route, token, params, body) ==
  [route |-> route, token |-> token, params |-> params, body |-> body,
   pc |-> "recv", status |-> 0, kind |-> "none", data |-> <<>>,
   hashedPassword |-> Absent, pre |-> users, post |-> <<>>, seen |-> Done]

\* res.status(status).send(text) / .json(data): the answer leaves.
Respond(r, status, kind, data, coll) ==
  [r EXCEPT !.pc = "done", !.status = status, !.kind = kind, !.data = data,
            !.post = coll]

Unauthorized(r) == Respond(r, 401, "text", <<"Unauthorized">>, users)

\* The error-handling middleware: an exception thrown by a handler.
ServerError(r) ==
  Respond(r, 500, "text", <<"There was an error. Please try again.">>, users)

\* ------------------------------------------------------------- POST /users

Mutant_NewUser(id, body, hashedPassword) ==
  [_id |-> id, Username |-> body.Username, Password |-> body.Password,
   Email |-> body.Email, Birthday |-> body.Birthday, FavoriteMovies |-> <<>>]

\* The document Users.create builds.
NewUser(id, body, hashedPassword) ==
  [_id |-> id, Username |-> body.Username, Password |-> hashedPassword,
   Email |-> body.Email, Birthday |-> body.Birthday, FavoriteMovies |-> <<>>]

Mutant_UserExists(found) == FALSE

\* if (user)
UserExists(found) == Len(found) > 0

\* Validation, then the password is hashed and findOne is issued.
RecvPostUsers(body, salt) ==
  /\ LET r == NewReq("POST /users", NoToken, NoParams, body)
         errors == ValidationErrors(body)
         hashed == HashPassword(body.Password, salt)
     IN reqs' = Append(reqs,
          IF errors /= {} THEN Respond(r, 422, "errors", <<errors>>, users)
          ELSE IF hashed = Throws THEN ServerError(r)
          ELSE [r EXCEPT !.pc = "findOne", !.hashedPassword = hashed])
  /\ UNCHANGED <<users, nextId, writer, stripUndefined>>

\* Users.findOne({ Username }) answers: taken, or go on to create.
PostUsersFindOne(i) ==
  /\ i \in 1..Len(reqs)
  /\ reqs[i].pc = "findOne"
  /\ reqs' = [reqs EXCEPT ![i] =
       IF UserExists(FindOne(users, reqs[i].body.Username))
       THEN Respond(@, 400, "text", <<"already exists">>, users)
       ELSE [@ EXCEPT !.pc = "create"]]
  /\ UNCHANGED <<users, nextId, writer, stripUndefined>>

\* Users.create(...) answers.
PostUsersCreate(i) ==
  /\ i \in 1..Len(reqs)
  /\ reqs[i].pc = "create"
  /\ LET user == NewUser(nextId, reqs[i].body, reqs[i].hashedPassword)
     IN /\ users' = Append(users, user)
        /\ reqs' = [reqs EXCEPT ![i] = Respond(@, 201, "doc", <<user>>, users')]
        /\ writer' = Append(writer, i)
  /\ nextId' = nextId + 1
  /\ UNCHANGED stripUndefined

\* ----------------------------------------------------- PUT /users/:Username

Mutant_UpdateSet(doc, body, hashedPassword) ==
  [doc EXCEPT !.Username = SetField(@, body.Username),
              !.Password = SetField(@, hashedPassword),
              !.Email = SetField(@, body.Email),
              !.Birthday = SetField(@, body.Birthday),
              !.FavoriteMovies = <<>>]

\* { $set: { Username, Password: hashedPassword, Email, Birthday } }
UpdateSet(doc, body, hashedPassword) ==
  [doc EXCEPT !.Username = SetField(@, body.Username),
              !.Password = SetField(@, hashedPassword),
              !.Email = SetField(@, body.Email),
              !.Birthday = SetField(@, body.Birthday)]

\* Token check, then the password is hashed and findOneAndUpdate is issued.
RecvPutUser(token, uname, body, salt) ==
  /\ LET r == NewReq("PUT /users/:Username", token, UserParam(uname), body)
         hashed == HashPassword(body.Password, salt)
     IN reqs' = Append(reqs,
          IF ~Authorized(r.route, token) THEN Unauthorized(r)
          ELSE IF hashed = Throws THEN ServerError(r)
          ELSE [r EXCEPT !.pc = "findOneAndUpdate", !.hashedPassword = hashed])
  /\ UNCHANGED <<users, nextId, writer, stripUndefined>>

\* Users.findOneAndUpdate({ Username }, { $set }, { new: true }) answers.
PutUser(i) ==
  /\ i \in 1..Len(reqs)
  /\ reqs[i].route = "PUT /users/:Username"
  /\ reqs[i].pc = "findOneAndUpdate"
  /\ LET k == FindIndex(users, reqs[i].params.Username)
     IN IF k = 0
        THEN /\ reqs' = [reqs EXCEPT ![i] = Respond(@, 200, "doc", <<>>, users)]
             /\ UNCHANGED <<users, writer>>
        ELSE /\ users' = [users EXCEPT ![k] =
                  UpdateSet(@, reqs[i].body, reqs[i].hashedPassword)]
             /\ writer' = [writer EXCEPT ![users[k]._id] = i]
             /\ reqs' = [reqs EXCEPT ![i] =
                  Respond(@, 200, "doc", <<users'[k]>>, users')]
  /\ UNCHANGED <<nextId, stripUndefined>>

\* -------------------------------------------------- DELETE /users/:Username

Mutant_DeleteUserStatus(found) == 200

\* if (!user) 400 ' was not found.' else 200 ' was deleted.'
DeleteUserStatus(found) == IF ~found THEN 400 ELSE 200

RecvDeleteUser(token, uname) ==
  /\ LET r == NewReq("DELETE /users/:Username", token, UserParam(uname), NoFields)
     IN reqs' = Append(reqs,
          IF ~Authorized(r.route, token) THEN Unauthorized(r)
          ELSE [r EXCEPT !.pc = "findOneAndRemove"])
  /\ UNCHANGED <<users, nextId, writer, stripUndefined>>

\* Users.findOneAndRemove({ Username }) answers.
DeleteUser(i) ==
  /\ i \in 1..Len(reqs)
  /\ reqs[i].pc = "findOneAndRemove"
  /\ LET k == FindIndex(users, reqs[i].params.Username)
     IN /\ users' = IF k = 0 THEN users ELSE RemoveAt(users, k)
        /\ reqs' = [reqs EXCEPT ![i] =
             Respond(@, DeleteUserStatus(k /= 0), "text",
                     IF k = 0 THEN <<"was not found.">> ELSE <<"was deleted.">>,
                     users')]
  /\ UNCHANGED <<nextId, writer, stripUndefined>>

\* ------------------------------------------ /users/:Username/movies/:MovieID

RecvPushFavorite(token, uname, movieId) ==
  /\ LET r == NewReq("POST /users/:Username/movies/:MovieID", token,
                     FavParams(uname, movieId), NoFields)
     IN reqs' = Append(reqs,
          IF ~Authorized(r.route, token) THEN Unauthorized(r)
          ELSE [r EXCEPT !.pc = "findOneAndUpdate"])
  /\ UNCHANGED <<users, nextId, writer, stripUndefined>>

\* Users.findOneAndUpdate({ Username }, { $push }, { new: true }) answers.
PushFavorite(i) ==
  /\ i \in 1..Len(reqs)
  /\ reqs[i].route = "POST /users/:Username/movies/:MovieID"
  /\ reqs[i].pc = "findOneAndUpdate"
  /\ LET k == FindIndex(users, reqs[i].params.Username)
     IN /\ users' = IF k = 0 THEN users
                    ELSE [users EXCEPT ![k].FavoriteMovies =
                            Push(@, reqs[i].params.MovieID)]
        /\ reqs' = [reqs EXCEPT ![i] =
             Respond(@, 200, "doc", IF k = 0 THEN <<>> ELSE <<users'[k]>>, users')]
  /\ UNCHANGED <<nextId, writer, stripUndefined>>

RecvPullFavorite(token, uname, movieId) ==
  /\ LET r == NewReq("DELETE /users/:Username/movies/:MovieID", token,
                     FavParams(uname, movieId), NoFields)
     IN reqs' = Append(reqs,
          IF ~Authorized(r.route, token) THEN Unauthorized(r)
          ELSE [r EXCEPT !.pc = "findOneAndUpdate"])
  /\ UNCHANGED <<users, nextId, writer, stripUndefined>>

\* Users.findOneAndUpdate({ Username }, { $pull }, { new: true }) answers.
PullFavorite(i) ==
  /\ i \in 1..Len(reqs)
  /\ reqs[i].route = "DELETE /users/:Username/movies/:MovieID"
  /\ reqs[i].pc = "findOneAndUpdate"
  /\ LET k == FindIndex(users, reqs[i].params.Username)
     IN /\ users' = IF k = 0 THEN users
                    ELSE [users EXCEPT ![k].FavoriteMovies =
                            Pull(@, reqs[i].params.MovieID)]
        /\ reqs' = [reqs EXCEPT ![i] =
             Respond(@, 200, "doc", IF k = 0 THEN <<>> ELSE <<users'[k]>>, users')]
  /\ UNCHANGED <<nextId, writer, stripUndefined>>

\* -------------------------------------------------------------- read routes

\* passport.authenticate, then the handler issues its one query.
RecvQuery(route, token, params) ==
  /\ route \in {"GET /users", "GET /users/:Username", "GET /movies",
                "GET /movies/:Title", "GET /movies/genres/:Name",
                "GET /movies/directors/:Name"}
  /\ LET r == NewReq(route, token, params, NoFields)
     IN reqs' = Append(reqs,
          IF ~Authorized(route, token) THEN Unauthorized(r)
          ELSE [r EXCEPT !.pc = "find"])
  /\ UNCHANGED <<users, nextId, writer, stripUndefined>>

Answering(i, route) ==
  /\ i \in 1..Len(reqs)
  /\ reqs[i].route = route
  /\ reqs[i].pc = "find"

\* Users.find() answers.
GetUsers(i) ==
  /\ Answering(i, "GET /users")
  /\ reqs' = [reqs EXCEPT ![i] = Respond(@, 201, "users", users, users)]
  /\ UNCHANGED <<users, nextId, writer, stripUndefined>>

\* Users.findOne({ Username }) answers.
GetUser(i) ==
  /\ Answering(i, "GET /users/:Username")
  /\ reqs' = [reqs EXCEPT ![i] =
       Respond(@, 200, "doc", FindOne(users, reqs[i].params.Username), users)]
  /\ UNCHANGED <<users, nextId, writer, stripUndefined>>

\* Movies.find() answers.
GetMovies(i) ==
  /\ Answering(i, "GET /movies")
  /\ reqs' = [reqs EXCEPT ![i] = Respond(@, 201, "movies", Movies, users)]
  /\ UNCHANGED <<users, nextId, writer, stripUndefined>>

\* The movies whose value at path (a field, or a sub-document's Name) is v.
MovieMatches(path, v) ==
  {k \in 1..Len(Movies) :
     IF path = "Title" THEN Movies[k].Title = v ELSE Movies[k][path].Name = v}

\* Movies.findOne: the first matching movie, as a sequence of none or one.
FindOneMovie(path, v) ==
  IF MovieMatches(path, v) = {} THEN <<>>
  ELSE <<Movies[CHOOSE k \in MovieMatches(path, v) :
                  \A j \in MovieMatches(path, v) : k <= j]>>

\* Movies.findOne({ Title }) answers.
GetMovie(i) ==
  /\ Answering(i, "GET /movies/:Title")
  /\ reqs' = [reqs EXCEPT ![i] =
       Respond(@, 200, "doc",
               FindOneMovie("Title", reqs[i].params.Title), users)]
  /\ UNCHANGED <<users, nextId, writer, stripUndefined>>

Mutant_SubDocument(r, found, field, coll) ==
  IF found = <<>> THEN Respond(r, 200, "doc", <<>>, coll)
  ELSE Respond(r, 200, field, <<found[1][field]>>, coll)

\* res.json(movie.Genre) / res.json(movie.Director): reading the field of null
\* throws inside .then, and .catch answers 500.
SubDocument(r, found, field, coll) ==
  IF found = <<>> THEN Respond(r, 500, "text", <<"Error: TypeError">>, coll)
  ELSE Respond(r, 200, field, <<found[1][field]>>, coll)

\* Movies.findOne({ 'Genre.Name': Name }) answers.
GetGenre(i) ==
  /\ Answering(i, "GET /movies/genres/:Name")
  /\ reqs' = [reqs EXCEPT ![i] =
       SubDocument(@, FindOneMovie("Genre", reqs[i].params.Name),
                   "Genre", users)]
  /\ UNCHANGED <<users, nextId, writer, stripUndefined>>

\* Movies.findOne({ 'Director.Name': Name }) answers.
GetDirector(i) ==
  /\ Answering(i, "GET /movies/directors/:Name")
  /\ reqs' = [reqs EXCEPT ![i] =
       SubDocument(@, FindOneMovie("Director", reqs[i].params.Name),
                   "Director", users)]
  /\ UNCHANGED <<users, nextId, writer, stripUndefined>>

\* ----------------------------------------------------------- public routes

\* GET / and GET /documentation: answered at once, no data access.
RecvPublic(route) ==
  /\ route \in {"GET /", "GET /documentation"}
  /\ reqs' = Append(reqs,
       Respond(NewReq(route, NoToken, NoParams, NoFields), 200,
               IF route = "GET /" THEN "text" ELSE "file",
               IF route = "GET /" THEN <<"Welcome to myFlix App">>
               ELSE <<"public/documentation.html">>, users))
  /\ UNCHANGED <<users, nextId, writer, stripUndefined>>

\* Login: Username and Password against the credential codec, no token asked.
RecvLogin(uname, password) ==
  /\ reqs' = Append(reqs,
       [NewReq("POST /login", NoToken, NoParams,
               Fields(uname, password, Absent, Absent)) EXCEPT !.pc = "login"])
  /\ UNCHANGED <<users, nextId, writer, stripUndefined>>

\* The user is looked up and the password verified; a token is issued.
Login(i) ==
  /\ i \in 1..Len(reqs)
  /\ reqs[i].pc = "login"
  /\ LET found == FindOne(users, reqs[i].body.Username)
     IN reqs' = [reqs EXCEPT ![i] =
          IF found /= <<>> /\ Verify(reqs[i].body.Password, found[1].Password)
          THEN Respond(@, 200, "token", <<Issue(found[1].Username)>>, users)
          ELSE Respond(@, 401, "text", <<"authentication error">>, users)]
  /\ UNCHANGED <<users, nextId, writer, stripUndefined>>

\* --------------------------------------------------------- seeded databases

Seed(id, uname, password, favs) ==
  [_id |-> id, Username |-> uname, Password |-> Hash(password, "s1"),
   Email |-> GoodEmail, Birthday |-> Day1, FavoriteMovies |-> favs]

\* A database holding the users coll, registered before the behaviour starts,
\* behind a driver that drops undefined update values (strip) or stores null.
Seeded(coll, strip) ==
  /\ users = coll
  /\ nextId = Len(coll) + 1
  /\ reqs = <<>>
  /\ writer = [k \in 1..Len(coll) |-> 0]
  /\ stripUndefined \in strip

\* Alice and Bobby registered earlier, Alice with the favourites favs.
AliceAndBobby(favs) == <<Seed(1, Alice, Pw1, favs), Seed(2, Bobby, Pw2, <<Movie2>>)>>

\* ------------------------------------------------- the user-account routes

ValidToken == Issue(Alice)

PostBodies ==
  {Fields(Alice, Pw1, GoodEmail, Day1),
   Fields(Bobby, Pw2, GoodEmail, Absent),
   Fields(ShortName, Pw1, GoodEmail, Day1),
   Fields(SymbolName, Pw1, GoodEmail, Day1),
   Fields(Absent, Pw1, GoodEmail, Day1),
   Fields(Alice, EmptyText, GoodEmail, Day1),
   Fields(Alice, Pw1, BadEmail, Day1)}

\* <<the :Username of the path, the body>>
PutRequests ==
  {<<Alice, Fields(Alice, Pw2, OtherEmail, Day2)>>,
   <<Alice, Fields(Bobby, Pw2, OtherEmail, Day2)>>,
   <<Alice, Fields(ShortName, Pw1, GoodEmail, Day1)>>,
   <<Alice, Fields(Alice, Pw2, Absent, Absent)>>,
   <<Alice, Fields(Absent, Pw2, OtherEmail, Day2)>>,
   <<Alice, Fields(Alice, Absent, OtherEmail, Day2)>>,
   <<Carol, Fields(Carol, Pw2, OtherEmail, Day2)>>}

\* The empty database, or one where Alice, or Alice and Bobby, registered.
InitUsers ==
  \E coll \in {<<>>, <<Seed(1, Alice, Pw1, <<Movie1>>)>>, AliceAndBobby(<<Movie1>>)} :
    Seeded(coll, BOOLEAN)

NextUsers ==
  \/ /\ Len(reqs) < MaxReqs
     /\ \E body \in PostBodies, salt \in Salts : RecvPostUsers(body, salt)
  \/ /\ Len(reqs) < MaxReqs
     /\ \E put \in PutRequests, salt \in Salts :
          RecvPutUser(ValidToken, put[1], put[2], salt)
  \/ /\ Len(reqs) < MaxReqs
     /\ \E uname \in {Alice, Bobby, Carol} : RecvDeleteUser(ValidToken, uname)
  \/ \E i \in 1..Len(reqs) : PostUsersFindOne(i)
  \/ \E i \in 1..Len(reqs) : PostUsersCreate(i)
  \/ \E i \in 1..Len(reqs) : PutUser(i)
  \/ \E i \in 1..Len(reqs) : DeleteUser(i)

SpecUsers == InitUsers /\ [][NextUsers]_vars

\* ------------------------------------------------------ favourites routes

InitFav ==
  \E favs \in {<<>>, <<Movie1, Movie2, Movie1>>} :
    Seeded(AliceAndBobby(favs), {FALSE})

NextFav ==
  \/ /\ Len(reqs) < MaxFavReqs
     /\ \E uname \in {Alice, Carol}, movieId \in MovieIDs :
          RecvPushFavorite(ValidToken, uname, movieId)
  \/ /\ Len(reqs) < MaxFavReqs
     /\ \E uname \in {Alice, Carol}, movieId \in MovieIDs :
          RecvPullFavorite(ValidToken, uname, movieId)
  \/ \E i \in 1..Len(reqs) : PushFavorite(i)
  \/ \E i \in 1..Len(reqs) : PullFavorite(i)

SpecFav == InitFav /\ [][NextFav]_vars

\* ---------------------------------------------------------------- all routes

Tokens == {NoToken, Malformed, BadSignature(Alice), Expired(Alice), ValidToken}

InitAll == Seeded(AliceAndBobby(<<Movie1>>), {FALSE})

NextAll ==
  \/ /\ Len(reqs) < MaxReqs
     /\ \E route \in {"GET /", "GET /documentation"} : RecvPublic(route)
  \/ /\ Len(reqs) < MaxReqs
     /\ \E body \in {Fields(Carol, Pw1, GoodEmail, Day1),
                      Fields(ShortName, Pw1, GoodEmail, Day1)} :
          RecvPostUsers(body, "s1")
  \/ /\ Len(reqs) < MaxReqs
     /\ \E password \in {Pw1, Pw2} : RecvLogin(Alice, password)
  \/ /\ Len(reqs) < MaxReqs
     /\ \E token \in Tokens :
          \/ RecvQuery("GET /users", token, NoParams)
          \/ RecvQuery("GET /movies", token, NoParams)
          \/ \E uname \in {Alice, Carol} :
               RecvQuery("GET /users/:Username", token, UserParam(uname))
          \/ \E title \in {Title1, Drama} :
               RecvQuery("GET /movies/:Title", token, [NoParams EXCEPT !.Title = title])
          \/ \E name \in {Drama, Comedy} :
               RecvQuery("GET /movies/genres/:Name", token, [NoParams EXCEPT !.Name = name])
          \/ \E name \in {Nolan, Allen} :
               RecvQuery("GET /movies/directors/:Name", token, [NoParams EXCEPT !.Name = name])
  \/ /\ Len(reqs) < MaxReqs
     /\ \E token \in Tokens :
          RecvPutUser(token, Alice, Fields(Carol, Pw2, OtherEmail, Day2), "s2")
  \/ /\ Len(reqs) < MaxReqs
     /\ \E token \in Tokens : RecvDeleteUser(token, Alice)
  \/ /\ Len(reqs) < MaxReqs
     /\ \E token \in Tokens : RecvPushFavorite(token, Alice, Movie2)
  \/ /\ Len(reqs) < MaxReqs
     /\ \E token \in Tokens : RecvPullFavorite(token, Alice, Movie1)
  \/ \E i \in 1..Len(reqs) : PostUsersFindOne(i)
  \/ \E i \in 1..Len(reqs) : PostUsersCreate(i)
  \/ \E i \in 1..Len(reqs) : Login(i)
  \/ \E i \in 1..Len(reqs) : GetUsers(i)
  \/ \E i \in 1..Len(reqs) : GetUser(i)
  \/ \E i \in 1..Len(reqs) : GetMovies(i)
  \/ \E i \in 1..Len(reqs) : GetMovie(i)
  \/ \E i \in 1..Len(reqs) : GetGenre(i)
  \/ \E i \in 1..Len(reqs) : GetDirector(i)
  \/ \E i \in 1..Len(reqs) : PutUser(i)
  \/ \E i \in 1..Len(reqs) : DeleteUser(i)
  \/ \E i \in 1..Len(reqs) : PushFavorite(i)
  \/ \E i \in 1..Len(reqs) : PullFavorite(i)

SpecAll == InitAll /\ [][NextAll]_vars

\* ------------------------------------------------------------------ claims

Answered(i) == reqs[i].pc = "done"

\* Request j was handled right after request i, and no other request ran
\* between the receipt of i and the answer to j.
Sequential(i, j) ==
  /\ j = i + 1
  /\ j <= Len(reqs)
  /\ i \in reqs[j].seen
  /\ \A k \in 1..(i - 1) : k \in reqs[i].seen
  /\ \A k \in (j + 1)..Len(reqs) : j \in reqs[k].seen

Count(seq, x) == Cardinality({k \in 1..Len(seq) : seq[k] = x})

Favorites(coll, uname) == coll[FindIndex(coll, uname)].FavoriteMovies

\* The behaviour started from the empty collection.
StartedEmpty == IF reqs = <<>> THEN users = <<>> ELSE reqs[1].pre = <<>>

\* C1: starting from the empty collection, no two User records ever have the
\* same Username, whatever the interleaving of POST /users and PUT.
C1_UsernameUnique ==
  StartedEmpty =>
    \A j, k \in 1..Len(users) : j /= k => users[j].Username /= users[k].Username

\* C2: the Password of every record written by POST /users or PUT is a hash,
\* is not the plaintext of the request that last wrote the record, and
\* verifies against that plaintext; the answer of that request carries the
\* hash too.
C2_PasswordHashed ==
  \A k \in 1..Len(users) :
    LET w == writer[users[k]._id]
    IN w /= 0 =>
         /\ IsHash(users[k].Password)
         /\ users[k].Password /= reqs[w].body.Password
         /\ Verify(reqs[w].body.Password, users[k].Password)
         /\ Answered(w) /\ reqs[w].data /= <<>>
         /\ reqs[w].data[1].Password /= reqs[w].body.Password

\* A record last written by a PUT, under another salt than the seed's.
C2_Witness ==
  \E k \in 1..Len(users) :
    /\ writer[users[k]._id] /= 0
    /\ reqs[writer[users[k]._id]].route = "PUT /users/:Username"
    /\ users[k].Password[2] = "s2"

ValidRegistration(i) ==
  /\ reqs[i].route = "POST /users"
  /\ ValidationErrors(reqs[i].body) = {}

\* Two valid registrations of one Username, one after the other, the name free
\* before the first.
C3_Case(i, j) ==
  /\ Sequential(i, j)
  /\ ValidRegistration(i) /\ ValidRegistration(j)
  /\ reqs[i].body.Username = reqs[j].body.Username
  /\ FindIndex(reqs[i].pre, reqs[i].body.Username) = 0
  /\ Answered(i) /\ Answered(j)

\* C3: two valid POST /users with the same free Username, handled one after
\* the other: the first is answered 201 and creates the user, the second is
\* answered 400 and leaves the collection as it found it.
C3_SequentialRegistration ==
  \A i, j \in 1..Len(reqs) :
    C3_Case(i, j) =>
      /\ reqs[i].status = 201
      /\ Len(reqs[i].post) = Len(reqs[i].pre) + 1
      /\ FindIndex(reqs[i].post, reqs[i].body.Username) /= 0
      /\ reqs[j].status = 400
      /\ reqs[j].post = reqs[j].pre

C3_Witness == \E i, j \in 1..Len(reqs) : C3_Case(i, j)

\* A push then a pull of the same movie id on one existing user, one after
\* the other.
C4_Case(i, j) ==
  /\ Sequential(i, j)
  /\ reqs[i].route = "POST /users/:Username/movies/:MovieID"
  /\ reqs[j].route = "DELETE /users/:Username/movies/:MovieID"
  /\ reqs[i].params = reqs[j].params
  /\ FindIndex(reqs[i].pre, reqs[i].params.Username) /= 0
  /\ Answered(i) /\ Answered(j)

\* C4 as claimed: push then pull of the same movie id restores the user's
\* FavoriteMovies, whatever it held before.
C4_RoundTrip ==
  \A i, j \in 1..Len(reqs) :
    C4_Case(i, j) =>
      Favorites(reqs[j].post, reqs[i].params.Username)
        = Favorites(reqs[i].pre, reqs[i].params.Username)

\* C4 as amended: push then pull of the same movie id leaves the original
\* FavoriteMovies without any occurrence of that id, which is the original
\* itself when it did not hold the id.
C4_RoundTripAmended ==
  \A i, j \in 1..Len(reqs) :
    C4_Case(i, j) =>
      LET before == Favorites(reqs[i].pre, reqs[i].params.Username)
          after == Favorites(reqs[j].post, reqs[i].params.Username)
          m == reqs[i].params.MovieID
          kept == {k \in 1..Len(before) : before[k] /= m}
      IN /\ Count(before, m) = 0 => after = before
         /\ Count(after, m) = 0
         /\ Len(after) = Cardinality(kept)
         /\ \A k \in kept :
              after[Cardinality({l \in kept : l <= k})] = before[k]

\* The round trip on a list that held the movie id twice.
C4_Witness ==
  \E i, j \in 1..Len(reqs) :
    /\ C4_Case(i, j)
    /\ Count(Favorites(reqs[i].pre, reqs[i].params.Username),
             reqs[i].params.MovieID) = 2

\* C5: every User record has an alphanumeric Username of at least 5
\* characters, in every state POST /users and PUT requests lead to.
C5_UsernameShape ==
  \A k \in 1..Len(users) :
    /\ IsLengthMin(ToStr(users[k].Username), MinUsernameLength)
    /\ IsAlphanumeric(ToStr(users[k].Username))

\* A request refused for its token: 401, no data, nothing run, nothing written.
Refused(i) ==
  /\ Answered(i)
  /\ reqs[i].status = 401
  /\ reqs[i].kind = "text"
  /\ reqs[i].data = <<"Unauthorized">>
  /\ reqs[i].post = reqs[i].pre

\* C6 as claimed: every route other than GET /, POST /users and GET
\* /documentation answers a request without a valid token 401, with no data,
\* without running its data access call.
C6_TokenRequired ==
  \A i \in 1..Len(reqs) :
    (/\ reqs[i].route \notin {"GET /", "POST /users", "GET /documentation"}
     /\ VerifyToken(reqs[i].token) = Null)
      => Refused(i)

\* C6 as amended: the same of every route other than GET /, POST /users, GET
\* /documentation and the login route.
C6_TokenRequiredAmended ==
  \A i \in 1..Len(reqs) :
    (/\ reqs[i].route \notin {"GET /", "POST /users", "GET /documentation",
                              "POST /login"}
     /\ VerifyToken(reqs[i].token) = Null)
      => Refused(i)

\* DELETE /users/:Username refused for an expired token, a favourite push
\* refused for a forged one.
C6_Witness ==
  /\ Len(reqs) = 2
  /\ \E i, j \in 1..Len(reqs) :
       /\ reqs[i].route = "DELETE /users/:Username"
       /\ reqs[i].token = Expired(Alice)
       /\ reqs[j].route = "POST /users/:Username/movies/:MovieID"
       /\ reqs[j].token = BadSignature(Alice)
       /\ Refused(i) /\ Refused(j)

\* The step in which findOneAndRemove answers request i.
DeleteStep(i) == reqs[i].pc = "findOneAndRemove" /\ reqs'[i].pc = "done"

\* C7: DELETE /users/:Username answers 400 'was not found' and changes nothing
\* when no record has that Username, and otherwise answers 200 and removes
\* exactly one record, one with that Username.
C7_DeleteUser ==
  [][\A i \in 1..Len(reqs) :
       DeleteStep(i) =>
         IF \A k \in 1..Len(users) : users[k].Username /= reqs[i].params.Username
         THEN /\ reqs'[i].status = 400
              /\ reqs'[i].data = <<"was not found.">>
              /\ users' = users
         ELSE /\ reqs'[i].status = 200
              /\ \E k \in 1..Len(users) :
                   /\ users[k].Username = reqs[i].params.Username
                   /\ users' = RemoveAt(users, k)]_vars

\* One DELETE answered 200 and one answered 400.
C7_Witness ==
  \E i, j \in 1..Len(reqs) :
    /\ reqs[i].route = "DELETE /users/:Username" /\ reqs[i].status = 200
    /\ reqs[j].route = "DELETE /users/:Username" /\ reqs[j].status = 400

SubRoute(i) ==
  reqs[i].route \in {"GET /movies/genres/:Name", "GET /movies/directors/:Name"}

SubField(i) == IF reqs[i].route = "GET /movies/genres/:Name" THEN "Genre" ELSE "Director"

Matching(i) ==
  {k \in 1..Len(Movies) : Movies[k][SubField(i)].Name = reqs[i].params.Name}

\* C8: the genre and director routes answer an error, never 200 with a null
\* or empty body, when no movie matches, and 200 with the sub-document of a
\* matching movie when one does.
C8_SubDocument ==
  \A i \in 1..Len(reqs) :
    (SubRoute(i) /\ Answered(i) /\ VerifyToken(reqs[i].token) /= Null) =>
      IF Matching(i) = {}
      THEN reqs[i].status >= 400 /\ reqs[i].kind = "text"
      ELSE /\ reqs[i].status = 200
           /\ reqs[i].kind = SubField(i)
           /\ \E k \in Matching(i) : reqs[i].data = <<Movies[k][SubField(i)]>>

\* A genre request no movie matches and a director request one matches.
C8_Witness ==
  \E i, j \in 1..Len(reqs) :
    /\ SubRoute(i) /\ Answered(i) /\ reqs[i].status = 500 /\ Matching(i) = {}
    /\ SubRoute(j) /\ Answered(j) /\ reqs[j].status = 200
    /\ reqs[j].route = "GET /movies/directors/:Name"

\* The step in which an authorized PUT /users/:Username is received.
PutReceived ==
  /\ Len(reqs') = Len(reqs) + 1
  /\ reqs'[Len(reqs')].route = "PUT /users/:Username"
  /\ VerifyToken(reqs'[Len(reqs')].token) /= Null

\* The step in which findOneAndUpdate answers PUT request i.
PutStep(i) ==
  /\ reqs[i].route = "PUT /users/:Username"
  /\ reqs[i].pc = "findOneAndUpdate"
  /\ reqs'[i].pc = "done"

\* Everything but the four fields of record k is as it was.
PutFrame(k) ==
  /\ Len(users') = Len(users)
  /\ users'[k]._id = users[k]._id
  /\ users'[k].FavoriteMovies = users[k].FavoriteMovies
  /\ \A j \in 1..Len(users) : j /= k => users'[j] = users[j]

PushesOn(uname) ==
  {i \in 1..Len(reqs) :
     /\ reqs[i].route = "POST /users/:Username/movies/:MovieID"
     /\ reqs[i].params.Username = uname}

\* Every request on uname is a push, there are at least two, all answered.
C10_Case(uname) ==
  /\ FindIndex(users, uname) /= 0
  /\ Cardinality(PushesOn(uname)) >= 2
  /\ \A i \in 1..Len(reqs) :
       reqs[i].params.Username = uname => i \in PushesOn(uname) /\ Answered(i)

\* C10: once N pushes on one user have all been answered, in whatever
\* interleaving, the user's FavoriteMovies is the original sequence followed
\* by the N pushed ids in some order.
C10_NoLostPush ==
  \A uname \in {Alice, Bobby} :
    C10_Case(uname) =>
      LET before == Favorites(reqs[1].pre, uname)
          after == Favorites(users, uname)
          added == SubSeq(after, Len(before) + 1, Len(after))
      IN /\ Len(after) = Len(before) + Cardinality(PushesOn(uname))
         /\ SubSeq(after, 1, Len(before)) = before
         /\ \A m \in MovieIDs :
              Count(added, m)
                = Cardinality({i \in PushesOn(uname) : reqs[i].params.MovieID = m})

\* Pushes of the same id on Alice, in flight together, all answered.
C10_Witness ==
  /\ C10_Case(Alice)
  /\ Len(reqs) = Cardinality(PushesOn(Alice))
  /\ \A i \in 1..Len(reqs) : reqs[i].seen = {} /\ reqs[i].params.MovieID = Movie1

====
